---- MODULE Spec2Model ----
\* A model of scan_packages.go: the module locator, the .iml descriptor
\* parser, the package collector, the file counter and the report, run over a
\* small file tree whose file sizes, file contents, descriptors and directory
\* permissions are drawn from bounded sets.
\*
\* Strings are sequences of tokens (a token is an indivisible piece of text),
\* so that prefix and suffix tests are computed and not assumed.  A file name
\* is a sequence of tokens, a path is a sequence of names, a line of a file is
\* a sequence of tokens in which " " is white space.
EXTENDS Integers, Sequences, FiniteSets, TLC

VARIABLES
    rootDir,     \* -d flag: the directory given to findModulesPaths
    size,        \* file path -> size in bytes (0 or 1) of the files whose size varies
    kind,        \* file path -> which text the file holds
    desc,        \* .iml path -> [ok, folders]: the parsed descriptor, or a parse failure
    unreadable,  \* the paths whose ReadDir / Open fails
    changed,     \* number of directories made unreadable since the first run began
    pc,          \* position of main: "locate", "parse", "collect", "count", "done", "exit0", "panic"
    todo,        \* paths the current WalkDir still has to visit, in visiting order
    modules,     \* findModulesPaths: var modules []string
    srcDirs,     \* grepXMLForSrcDirPaths: srcDirs map, source root -> .iml path
    rootsLeft,   \* main: keys of srcDirPaths the range loop has not yet yielded
    cur,         \* main: <<srcDir>> of the running loop iteration, or <<>>
    pkgs,        \* main: pkgs map, package directory -> pkg
    countLeft,   \* readPkgDirsToCollectFiles: keys not yet ranged over
    stderr,      \* diagnostics written to os.Stderr
    stdout,      \* rows written to os.Stdout
    walkErr,     \* the <<walk, path>> for which WalkDir passed an error to its callback
    run,         \* number of the current run of the program over the tree
    prev         \* pkgs of the previous completed run (<<>> before)

vars == <<rootDir, size, kind, desc, unreadable, changed, pc, todo, modules,
          srcDirs, rootsLeft, cur, pkgs, countLeft, stderr, stdout,
          walkErr, run, prev>>

treeVars == <<rootDir, size, kind, desc>>

\* ---------------------------------------------------------------- bounds

MaxRuns == 2        \* runs of the program over the same tree
MaxFolders == 2     \* <sourceFolder/> entries of one descriptor (SpecGrep)
MaxChmod == 1       \* directories made unreadable while the program runs

\* ---------------------------------------------------------------- strings

HasPrefix(s, p) == Len(s) >= Len(p) /\ SubSeq(s, 1, Len(p)) = p

HasSuffix(s, p) == Len(s) >= Len(p) /\ SubSeq(s, Len(s) - Len(p) + 1, Len(s)) = p

RECURSIVE TrimRight(_, _)
TrimRight(s, c) ==
    IF s # <<>> /\ s[Len(s)] = c THEN TrimRight(SubSeq(s, 1, Len(s) - 1), c) ELSE s

\* strings.Fields: the maximal runs of non-space tokens.
RECURSIVE FieldsFrom(_, _, _)
FieldsFrom(line, acc, field) ==
    IF line = <<>> THEN (IF field = <<>> THEN acc ELSE Append(acc, field))
    ELSE IF Head(line) = " "
         THEN FieldsFrom(Tail(line), IF field = <<>> THEN acc ELSE Append(acc, field), <<>>)
         ELSE FieldsFrom(Tail(line), acc, Append(field, Head(line)))

Fields(line) == FieldsFrom(line, <<>>, <<>>)

\* filepath.Base, filepath.Dir, filepath.Join(dir, name) on sequences of names.
Base(path) == path[Len(path)]

Dir(path) == SubSeq(path, 1, Len(path) - 1)

Join(dir, name) == Append(dir, name)

\* The path as one string: its names separated by "/".
RECURSIVE PathStr(_)
PathStr(path) ==
    IF path = <<>> THEN <<>>
    ELSE IF Len(path) = 1 THEN path[1]
    ELSE PathStr(Dir(path)) \o <<"/">> \o Base(path)

\* filepath.Ext: from the last dot of the name on.
DotTokens == {".java", ".kt", ".iml", ".html"}

Ext(name) == IF name # <<>> /\ name[Len(name)] \in DotTokens THEN name[Len(name)] ELSE ""

\* ---------------------------------------------------------------- the tree

\* p/
\*   .idea/h.iml
\*   m1.iml  mTests.iml
\*   other/
\*   src/  .h/H.java  A.java  _T.java  m3.iml  package.html
\*         sub/B.kt  sub/package-info.java  test/T.java  util.kt
\*   test/t.iml
nP == <<"p">>
nIdea == <<".", "idea">>
nHIml == <<"h", ".iml">>
nM1 == <<"m1", ".iml">>
nMTests == <<"m", "Tests", ".iml">>
nOther == <<"other">>
nSrc == <<"src">>
nTest == <<"test">>
nTIml == <<"t", ".iml">>
nHid == <<".", "h">>
nHJava == <<"H", ".java">>
nAJava == <<"A", ".java">>
nTmpl == <<"_", "T", ".java">>
nM3 == <<"m3", ".iml">>
nPkgHtml == <<"package", ".html">>
nSub == <<"sub">>
nUtilKt == <<"util", ".kt">>
nBKt == <<"B", ".kt">>
nPkgInfo == <<"package-info", ".java">>
nTJava == <<"T", ".java">>
nMissing == <<"missing">>

dP == <<nP>>
dIdea == <<nP, nIdea>>
dOther == <<nP, nOther>>
dSrc == <<nP, nSrc>>
dTest == <<nP, nTest>>
dHid == <<nP, nSrc, nHid>>
dSub == <<nP, nSrc, nSub>>
dSrcTest == <<nP, nSrc, nTest>>

fM1 == <<nP, nM1>>
fM3 == <<nP, nSrc, nM3>>
fAJava == <<nP, nSrc, nAJava>>
fTmpl == <<nP, nSrc, nTmpl>>
fPkgHtml == <<nP, nSrc, nPkgHtml>>
fUtilKt == <<nP, nSrc, nUtilKt>>

Dirs == {dP, dIdea, dOther, dSrc, dTest, dHid, dSub, dSrcTest}

\* os.ReadDir: the entries of a directory, sorted by file name (byte order).
Entries(dir) ==
    CASE dir = dP -> <<nIdea, nM1, nMTests, nOther, nSrc, nTest>>
      [] dir = dIdea -> <<nHIml>>
      [] dir = dOther -> <<>>
      [] dir = dSrc -> <<nHid, nAJava, nTmpl, nM3, nPkgHtml, nSub, nTest, nUtilKt>>
      [] dir = dTest -> <<nTIml>>
      [] dir = dHid -> <<nHJava>>
      [] dir = dSub -> <<nBKt, nPkgInfo>>
      [] dir = dSrcTest -> <<nTJava>>
      [] OTHER -> <<>>

Children(dir) == [i \in 1..Len(Entries(dir)) |-> Join(dir, Entries(dir)[i])]

Files == UNION {{Join(d, Entries(d)[i]) : i \in 1..Len(Entries(d))} : d \in Dirs} \ Dirs

\* os.Lstat succeeds.
Exists(path) == path \in Dirs \/ path \in Files

\* fs.DirEntry.IsDir
IsDir(path) == path \in Dirs

VarSizeFiles == {fAJava, fPkgHtml}

VarKindFiles == {fAJava}

\* fs.FileInfo.Size: every file of the tree but those of VarSizeFiles is non-empty.
Size(path, sz) == IF path \in DOMAIN sz THEN sz[path] ELSE 1

ScanLines == 100

Comment == <<"//">>

PkgLine == <<"package", " ", "com.foo", ";">>

\* The lines of a file, by the kind of text it holds.
Content(k) ==
    CASE k = "ok" -> <<Comment, <<>>, PkgLine>>
      [] k = "one" -> <<Comment, <<"package", " ">>>>
      [] k = "three" -> <<<<"package", " ", "com.foo", ";", " ", "//", " ", "x">>>>
      [] k = "late" -> [i \in 1..ScanLines |-> Comment] \o <<PkgLine>>
      [] OTHER -> <<Comment, <<>>, PkgLine>>

Kinds == {"ok", "one", "three", "late"}

Lines(path, kd) == Content(IF path \in DOMAIN kd THEN kd[path] ELSE "ok")

\* ---------------------------------------------------------------- descriptors

\* type srcDir struct: one <sourceFolder/> of an .iml file.
Url(name) == <<<<"file://$MODULE_DIR$">>, name>>

SrcFolder(name, isTest, generated, type) ==
    [Url |-> Url(name), IsTest |-> isTest, Generated |-> generated, Type |-> type]

isResource(sd) == HasSuffix(sd.Type, <<"-resource">>)

Eligible(sd) == ~sd.Generated /\ ~sd.IsTest /\ ~isResource(sd)

RECURSIVE srcDirURLLast(_)
srcDirURLLast(folders) ==
    IF folders = <<>> THEN [url |-> <<>>, err |-> TRUE]
    ELSE IF Eligible(folders[Len(folders)])
         THEN [url |-> folders[Len(folders)].Url, err |-> FALSE]
         ELSE srcDirURLLast(SubSeq(folders, 1, Len(folders) - 1))

RECURSIVE srcDirURL(_)
srcDirURL(folders) ==
    IF folders = <<>> THEN [url |-> <<>>, err |-> TRUE]
    ELSE IF Eligible(Head(folders))
         THEN [url |-> Head(folders).Url, err |-> FALSE]
         ELSE srcDirURL(Tail(folders))

\* newModuleFromXMLFile: the descriptor, or an error when the file cannot be
\* read or is not XML.
newModuleFromXMLFile(path, ds) ==
    IF path \in DOMAIN ds /\ ds[path].ok
    THEN [module |-> ds[path].folders, err |-> FALSE]
    ELSE [module |-> <<>>, err |-> TRUE]

Put(map, key, val) == [k \in DOMAIN map \cup {key} |-> IF k = key THEN val ELSE map[k]]

RECURSIVE grepXMLForSrcDirPaths(_, _, _)
grepXMLForSrcDirPaths(modulesPaths, ds, acc) ==
    IF modulesPaths = <<>> THEN [srcDirs |-> acc, err |-> FALSE]
    ELSE LET mp == Head(modulesPaths)
             m == newModuleFromXMLFile(mp, ds)
             u == srcDirURL(m.module)
         IN  IF m.err THEN [srcDirs |-> <<>>, err |-> TRUE]
             ELSE IF u.err THEN grepXMLForSrcDirPaths(Tail(modulesPaths), ds, acc)
             ELSE grepXMLForSrcDirPaths(Tail(modulesPaths), ds,
                                        Put(acc, Join(Dir(mp), Base(u.url)), mp))

\* ---------------------------------------------------------------- module locator

fileExt == <<".iml">>

skipDirs == {<<"test">>, <<"tests">>, <<"testData">>, <<"testSources">>, <<"testSource">>,
             <<"testSrc">>, <<"testResources">>, <<"gen">>, <<"generated">>,
             <<"resources">>, <<"build-scripts">>}

\* regexp [tT]ests<fileExt>$
testModules(name) ==
    HasSuffix(name, <<"Tests">> \o fileExt) \/ HasSuffix(name, <<"tests">> \o fileExt)

\* FindFn without the deny-set: only hidden directories are pruned.
FindFnHiddenOnly(path, err, mods) ==
    LET name == Base(path)
    IN  IF ~Exists(path) THEN [ret |-> "panic", modules |-> mods]
        ELSE IF IsDir(path) /\ HasPrefix(name, <<".">>)
        THEN [ret |-> "SkipDir", modules |-> mods]
        ELSE [ret |-> "nil",
              modules |-> IF HasSuffix(name, fileExt) /\ ~testModules(name)
                          THEN Append(mods, path) ELSE mods]

\* The WalkDir callback of findModulesPaths: what it returns and the modules
\* slice after it.  The err argument is not looked at.
FindFn(path, err, mods) ==
    LET name == Base(path)
    IN  IF ~Exists(path) THEN [ret |-> "panic", modules |-> mods]   \* d is nil
        ELSE IF IsDir(path) /\ (HasPrefix(name, <<".">>) \/ name \in skipDirs)
        THEN [ret |-> "SkipDir", modules |-> mods]
        ELSE [ret |-> "nil",
              modules |-> IF HasSuffix(name, fileExt) /\ ~testModules(name)
                          THEN Append(mods, path) ELSE mods]

\* ---------------------------------------------------------------- package collector

EmptyMap == [e \in {} |-> 0]

\* The for loop of readPkgNameFromFirstLines from line i (counted from 0) on.
RECURSIVE ScanFrom(_, _, _)
ScanFrom(lines, i, n) ==
    IF lines = <<>> \/ ~(i < n) THEN [name |-> <<>>, diag |-> FALSE, panic |-> FALSE]
    ELSE IF HasPrefix(Head(lines), <<"package", " ">>)
         THEN LET ss == Fields(Head(lines))
              IN  IF Len(ss) < 2
                  THEN [name |-> <<>>, diag |-> TRUE, panic |-> TRUE]   \* ss[1]: index out of range
                  ELSE [name |-> TrimRight(ss[2], ";"), diag |-> Len(ss) # 2, panic |-> FALSE]
         ELSE ScanFrom(Tail(lines), i + 1, n)

readPkgNameFromFirstLines(path, n, kd, unread) ==
    IF path \in unread
    THEN [name |-> <<>>, err |-> TRUE, diag |-> FALSE, panic |-> FALSE]
    ELSE LET r == ScanFrom(Lines(path, kd), 0, n)
         IN  [name |-> r.name, err |-> FALSE, diag |-> r.diag, panic |-> r.panic]

IsDocFile(path) ==
    \/ HasSuffix(PathStr(path), <<"package-info", ".java">>)
    \/ HasSuffix(PathStr(path), <<"package", ".html">>)

IsSrcFile(path) ==
    HasSuffix(PathStr(path), <<".java">>) \/ HasSuffix(PathStr(path), <<".kt">>)

NameDiag(path) == [msg |-> "fail to get package name", path |-> path]

DirDiag(path) == [msg |-> "failed to travers fs for package", path |-> path]

\* NewPkg with the name taken from the directory's path below the source root.
NewPkgNameFromPath(mod, srcDir, pkgDir, pkgName, path) ==
    [module |-> mod, srcDir |-> srcDir, pkgDir |-> pkgDir,
     name |-> PathStr(SubSeq(pkgDir, Len(srcDir) + 1, Len(pkgDir))),
     doc |-> IF IsDocFile(path) THEN path ELSE <<>>,
     files |-> <<>>, filesCnt |-> EmptyMap]

NewPkg(mod, srcDir, pkgDir, pkgName, path) ==
    [module |-> mod, srcDir |-> srcDir, pkgDir |-> pkgDir, name |-> pkgName,
     doc |-> IF IsDocFile(path) THEN path ELSE <<>>,
     files |-> <<>>, filesCnt |-> EmptyMap]

\* WalkFn without the lookup of an existing record: every source file sighting
\* writes the record of its directory.
WalkFnOverwrite(path, err, mod, srcDir, ps, sz, kd, unread) ==
    LET same == [ret |-> "nil", pkgs |-> ps, diag |-> {}]
        pkgDir == Dir(path)
        r == readPkgNameFromFirstLines(path, ScanLines, kd, unread)
        dg == IF r.diag THEN {NameDiag(path)} ELSE {}
    IN  IF err THEN [same EXCEPT !.ret = "err"]
        ELSE IF IsDir(path) /\ HasPrefix(Base(path), <<".">>) THEN [same EXCEPT !.ret = "SkipDir"]
        ELSE IF IsDir(path) THEN same
        ELSE IF HasPrefix(Base(path), <<"_">>) THEN same
        ELSE IF Size(path, sz) = 0 THEN same
        ELSE IF IsSrcFile(path)
             THEN IF r.panic THEN [ret |-> "panic", pkgs |-> ps, diag |-> dg]
                  ELSE IF r.err THEN [same EXCEPT !.ret = "err"]
                  ELSE [ret |-> "nil", diag |-> dg,
                        pkgs |-> Put(ps, pkgDir, NewPkg(mod, srcDir, pkgDir, r.name, path))]
        ELSE IF pkgDir \in DOMAIN ps /\ IsDocFile(path)
             THEN [same EXCEPT !.pkgs = [ps EXCEPT ![pkgDir].doc = path]]
        ELSE same

\* The WalkDir callback of main: what it returns, the pkgs map after it and
\* the diagnostics it wrote.
WalkFn(path, err, mod, srcDir, ps, sz, kd, unread) ==
    LET same == [ret |-> "nil", pkgs |-> ps, diag |-> {}]
        pkgDir == Dir(path)
        r == readPkgNameFromFirstLines(path, ScanLines, kd, unread)
        dg == IF r.diag THEN {NameDiag(path)} ELSE {}
    IN  IF err THEN [same EXCEPT !.ret = "err"]
        ELSE IF IsDir(path) /\ HasPrefix(Base(path), <<".">>) THEN [same EXCEPT !.ret = "SkipDir"]
        ELSE IF IsDir(path) THEN same
        ELSE IF HasPrefix(Base(path), <<"_">>) THEN same
        ELSE IF Size(path, sz) = 0 THEN same
        ELSE IF pkgDir \in DOMAIN ps
             THEN IF IsDocFile(path)
                  THEN [same EXCEPT !.pkgs = [ps EXCEPT ![pkgDir].doc = path]]
                  ELSE same
        ELSE IF IsSrcFile(path)
             THEN IF r.panic THEN [ret |-> "panic", pkgs |-> ps, diag |-> dg]
                  ELSE IF r.err THEN [same EXCEPT !.ret = "err"]
                  ELSE [ret |-> "nil", diag |-> dg,
                        pkgs |-> Put(ps, pkgDir, NewPkg(mod, srcDir, pkgDir, r.name, path))]
        ELSE same

\* ---------------------------------------------------------------- file counter

RECURSIVE CollectFiles(_, _)
CollectFiles(names, acc) ==
    IF names = <<>> THEN acc
    ELSE LET fName == Head(names)
         IN  IF HasSuffix(fName, <<".java">>) \/ HasSuffix(fName, <<".kt">>)
             THEN CollectFiles(Tail(names),
                      [files |-> Append(acc.files, fName),
                       filesCnt |-> Put(acc.filesCnt, Ext(fName),
                                        (IF Ext(fName) \in DOMAIN acc.filesCnt
                                         THEN acc.filesCnt[Ext(fName)] ELSE 0) + 1)])
             ELSE CollectFiles(Tail(names), acc)

\* The entries of a directory that are not directories, in ReadDir order.
FileEntries(dir) == SelectSeq(Entries(dir), LAMBDA nm : ~IsDir(Join(dir, nm)))

\* ReadPkgDir without the check of ReadDir's error: the entries are counted anyway.
ReadPkgDirErrIgnored(pkg, pkgDir, unread) ==
    LET c == CollectFiles(FileEntries(pkgDir), [files |-> pkg.files, filesCnt |-> EmptyMap])
    IN  [pkg EXCEPT !.files = c.files, !.filesCnt = c.filesCnt]

\* One iteration of the loop of readPkgDirsToCollectFiles.
ReadPkgDir(pkg, pkgDir, unread) ==
    IF pkgDir \in unread \/ ~IsDir(pkgDir) THEN pkg
    ELSE LET c == CollectFiles(FileEntries(pkgDir), [files |-> pkg.files, filesCnt |-> EmptyMap])
         IN  [pkg EXCEPT !.files = c.files, !.filesCnt = c.filesCnt]

Cnt(filesCnt, ext) == IF ext \in DOMAIN filesCnt THEN filesCnt[ext] ELSE 0

\* ---------------------------------------------------------------- report

docSign(doc) ==
    IF HasSuffix(PathStr(doc), <<".html">>) THEN "roadworks"
    ELSE IF HasSuffix(PathStr(doc), <<".java">>) THEN "check"
    ELSE ""

\* One row of the body, -gs and -md not given.
Row(pkg) ==
    [files |-> Len(pkg.files), java |-> Cnt(pkg.filesCnt, ".java"), kt |-> Cnt(pkg.filesCnt, ".kt"),
     pkg |-> pkg.pkgDir, sign |-> docSign(pkg.doc), doc |-> pkg.doc]

\* ---------------------------------------------------------------- main

OkDesc(folders) == [ok |-> TRUE, folders |-> folders]

BadDesc == [ok |-> FALSE, folders |-> <<>>]

Plain(name) == SrcFolder(name, FALSE, FALSE, <<>>)

M1Descs == {OkDesc(<<Plain(nSrc)>>), OkDesc(<<SrcFolder(nSrc, TRUE, FALSE, <<>>)>>),
            OkDesc(<<Plain(nMissing)>>), BadDesc}

M3Descs == {OkDesc(<<SrcFolder(nSrc, FALSE, FALSE, <<"java", "-resource">>), Plain(nSub)>>),
            OkDesc(<<>>)}

Start ==
    /\ pc = "locate"
    /\ todo = <<rootDir>>
    /\ modules = <<>>
    /\ srcDirs = EmptyMap
    /\ rootsLeft = {}
    /\ cur = <<>>
    /\ pkgs = EmptyMap
    /\ countLeft = {}
    /\ stderr = {}
    /\ stdout = {}
    /\ walkErr = {}

Init ==
    /\ rootDir \in {dP, <<nMissing>>}
    /\ size \in [VarSizeFiles -> {0, 1}]
    /\ kind \in [VarKindFiles -> Kinds]
    /\ desc \in {[m \in {fM1, fM3} |-> IF m = fM1 THEN a ELSE b] : a \in M1Descs, b \in M3Descs}
    /\ unreadable \in {{}, {dOther}, {dSrc}, {dSub}}
    /\ changed = 0
    /\ run = 1
    /\ prev = EmptyMap
    /\ Start

\* findModulesPaths: one step of filepath.WalkDir(rootDir, ...), the visit of
\* the next path.  A directory whose ReadDir fails is reported to the callback
\* a second time, with the error, and has no entries to descend into.
LocateVisit ==
    /\ pc = "locate"
    /\ todo # <<>>
    /\ LET path == Head(todo)
           r1 == FindFn(path, ~Exists(path), modules)
           again == r1.ret = "nil" /\ IsDir(path) /\ path \in unreadable
           r == IF again THEN FindFn(path, TRUE, r1.modules) ELSE r1
           rest == IF r.ret = "nil" /\ IsDir(path) /\ ~again
                   THEN Children(path) \o Tail(todo) ELSE Tail(todo)
       IN  /\ modules' = r.modules
           /\ walkErr' = IF again \/ ~Exists(path) THEN walkErr \cup {<<"locate", path>>} ELSE walkErr
           /\ IF r.ret = "panic"
              THEN pc' = "panic" /\ todo' = <<>> /\ stdout' = stdout
              ELSE IF r.ret = "err"
              THEN /\ pc' = "exit0"
                   /\ todo' = <<>>
                   /\ stdout' = stdout \cup {[msg |-> "error walking the path", path |-> rootDir]}
              ELSE /\ todo' = rest
                   /\ pc' = IF rest = <<>> THEN "parse" ELSE "locate"
                   /\ stdout' = stdout
    /\ UNCHANGED <<treeVars, unreadable, changed, srcDirs, rootsLeft, cur, pkgs, countLeft,
                   stderr, run, prev>>

\* srcDirPaths, err := grepXMLForSrcDirPaths(modulesPaths); panicIfError(err)
GrepXML ==
    /\ pc = "parse"
    /\ LET r == grepXMLForSrcDirPaths(modules, desc, EmptyMap)
       IN  IF r.err
           THEN pc' = "panic" /\ UNCHANGED <<srcDirs, rootsLeft>>
           ELSE pc' = "collect" /\ srcDirs' = r.srcDirs /\ rootsLeft' = DOMAIN r.srcDirs
    /\ UNCHANGED <<walkErr, treeVars, unreadable, changed, todo, modules, cur, pkgs, countLeft,
                   stderr, stdout, run, prev>>

\* for srcDir, mod := range srcDirPaths: the next key, in any order.
CollectStartRoot ==
    /\ pc = "collect"
    /\ todo = <<>>
    /\ \E s \in rootsLeft :
        /\ cur' = s
        /\ todo' = <<s>>
        /\ rootsLeft' = rootsLeft \ {s}
    /\ UNCHANGED <<walkErr, treeVars, unreadable, changed, pc, modules, srcDirs, pkgs, countLeft,
                   stderr, stdout, run, prev>>

\* One step of filepath.WalkDir(srcDir, ...) in main, and panicIfError(err)
\* when the walk ends with an error.
CollectVisit ==
    /\ pc = "collect"
    /\ todo # <<>>
    /\ LET path == Head(todo)
           r1 == WalkFn(path, ~Exists(path), srcDirs[cur], cur, pkgs, size, kind, unreadable)
           again == r1.ret = "nil" /\ IsDir(path) /\ path \in unreadable
           r == IF again
                THEN WalkFn(path, TRUE, srcDirs[cur], cur, r1.pkgs, size, kind, unreadable)
                ELSE r1
       IN  /\ pkgs' = r.pkgs
           /\ stderr' = stderr \cup r.diag
           /\ walkErr' = IF again \/ ~Exists(path) THEN walkErr \cup {<<"collect", path>>} ELSE walkErr
           /\ IF r.ret \in {"panic", "err"}
              THEN pc' = "panic" /\ todo' = <<>>
              ELSE /\ pc' = pc
                   /\ todo' = IF r.ret = "nil" /\ IsDir(path)
                              THEN Children(path) \o Tail(todo) ELSE Tail(todo)
    /\ UNCHANGED <<treeVars, unreadable, changed, modules, srcDirs, rootsLeft, cur, countLeft,
                   stdout, run, prev>>

\* The range loop over srcDirPaths is over: readPkgDirsToCollectFiles(pkgs) begins.
CollectDone ==
    /\ pc = "collect"
    /\ todo = <<>>
    /\ rootsLeft = {}
    /\ pc' = "count"
    /\ cur' = <<>>
    /\ countLeft' = DOMAIN pkgs
    /\ UNCHANGED <<walkErr, treeVars, unreadable, changed, todo, modules, srcDirs, rootsLeft, pkgs,
                   stderr, stdout, run, prev>>

\* for pkgDir, pkg := range pkgs: the next key, in any order.
CountPkg ==
    /\ pc = "count"
    /\ \E d \in countLeft :
        /\ pkgs' = [pkgs EXCEPT ![d] = ReadPkgDir(pkgs[d], d, unreadable)]
        /\ stderr' = IF d \in unreadable \/ ~IsDir(d) THEN stderr \cup {DirDiag(d)} ELSE stderr
        /\ countLeft' = countLeft \ {d}
    /\ UNCHANGED <<walkErr, treeVars, unreadable, changed, pc, todo, modules, srcDirs, rootsLeft, cur,
                   stdout, run, prev>>

\* print: body, and the return of main.
Report ==
    /\ pc = "count"
    /\ countLeft = {}
    /\ stdout' = stdout \cup {Row(pkgs[d]) : d \in DOMAIN pkgs}
    /\ pc' = "done"
    /\ UNCHANGED <<walkErr, treeVars, unreadable, changed, todo, modules, srcDirs, rootsLeft, cur, pkgs,
                   countLeft, stderr, run, prev>>

\* The environment: a package directory becomes unreadable between the walk
\* and the file counter's read of it.
Chmod ==
    /\ pc = "count"
    /\ changed < MaxChmod
    /\ \E d \in countLeft \ unreadable : unreadable' = unreadable \cup {d}
    /\ changed' = changed + 1
    /\ UNCHANGED <<walkErr, treeVars, pc, todo, modules, srcDirs, rootsLeft, cur, pkgs, countLeft,
                   stderr, stdout, run, prev>>

\* The program is run again over the same tree.
Rerun ==
    /\ pc = "done"
    /\ run < MaxRuns
    /\ run' = run + 1
    /\ prev' = pkgs
    /\ pc' = "locate"
    /\ todo' = <<rootDir>>
    /\ modules' = <<>>
    /\ srcDirs' = EmptyMap
    /\ rootsLeft' = {}
    /\ cur' = <<>>
    /\ pkgs' = EmptyMap
    /\ countLeft' = {}
    /\ stderr' = {}
    /\ stdout' = {}
    /\ walkErr' = {}
    /\ UNCHANGED <<treeVars, unreadable, changed>>

Next ==
    \/ LocateVisit
    \/ GrepXML
    \/ CollectStartRoot
    \/ CollectVisit
    \/ CollectDone
    \/ CountPkg
    \/ Report
    \/ Chmod
    \/ Rerun

Spec == Init /\ [][Next]_vars

\* The descriptor parser alone: modulesPaths as the locator returns them for
\* the tree, every descriptor of at most MaxFolders source folders.
FolderSet ==
    {SrcFolder(n, t, g, ty) : n \in {nSrc, nSub}, t \in BOOLEAN, g \in BOOLEAN,
                              ty \in {<<>>, <<"java", "-resource">>}}

SeqsUpTo(S, n) == UNION {[1..k -> S] : k \in 0..n}

InitGrep ==
    /\ rootDir = dP
    /\ size = [f \in VarSizeFiles |-> 1]
    /\ kind = [f \in VarKindFiles |-> "ok"]
    /\ desc \in {[m \in {fM1, fM3} |-> IF m = fM1 THEN a ELSE b] :
                    a \in {OkDesc(f) : f \in SeqsUpTo(FolderSet, MaxFolders)} \cup {BadDesc},
                    b \in M3Descs}
    /\ unreadable = {}
    /\ changed = 0
    /\ run = 1
    /\ prev = EmptyMap
    /\ pc = "parse"
    /\ todo = <<>>
    /\ modules = <<fM1, fM3>>
    /\ srcDirs = EmptyMap
    /\ rootsLeft = {}
    /\ cur = <<>>
    /\ pkgs = EmptyMap
    /\ countLeft = {}
    /\ stderr = {}
    /\ stdout = {}
    /\ walkErr = {}

SpecGrep == InitGrep /\ [][GrepXML]_vars

\* ---------------------------------------------------------------- properties

\* A file the collector must pass over: underscore-prefixed, or of size zero.
Passed(path) == HasPrefix(Base(path), <<"_">>) \/ Size(path, size) = 0

SrcSuffix(name) == name # <<>> /\ name[Len(name)] \in {".java", ".kt"}

DocName(name) == name \in {nPkgInfo, nPkgHtml}

\* The names of the files of dir that satisfy Q, in directory order.
FilesOf(dir, Q(_)) == SelectSeq(Entries(dir), LAMBDA nm : ~IsDir(Join(dir, nm)) /\ Q(nm))

NumOf(dir, Q(_)) == Len(FilesOf(dir, Q))

\* path lies beneath a directory, at rootDir or below it, named in the deny-set.
BeneathDeny(path) == \E i \in Len(rootDir)..(Len(path) - 1) : path[i] \in skipDirs

WalkOver == pc \in {"count", "done"}

\* C1: during the collector's walk a record, once in the map, stays in it
\* under its own directory as key, and a step changes nothing of it but doc;
\* within one run its module, srcDir, pkgDir and name never change.
C1_Step ==
    /\ (run' = run) =>
          \A d \in DOMAIN pkgs :
              /\ d \in DOMAIN pkgs'
              /\ pkgs'[d].module = pkgs[d].module
              /\ pkgs'[d].srcDir = pkgs[d].srcDir
              /\ pkgs'[d].pkgDir = pkgs[d].pkgDir
              /\ pkgs'[d].name = pkgs[d].name
    /\ (pc = "collect") =>
          \A d \in DOMAIN pkgs : pkgs'[d] = [pkgs[d] EXCEPT !.doc = pkgs'[d].doc]
    /\ \A d \in DOMAIN pkgs' : pkgs'[d].pkgDir = d

\* C1: every step of the program keeps the records as C1_Step says.
C1_RecordKeptButDoc == [][C1_Step]_vars

\* p/src/sub was walked from the root p/src, which created its record and then
\* set its doc, and walked again from the root p/src/sub.
C1_Witness ==
    /\ pc = "collect"
    /\ cur = dSub
    /\ todo = <<>>
    /\ dSub \in DOMAIN pkgs
    /\ pkgs[dSub].srcDir = dSrc
    /\ pkgs[dSub].doc = Join(dSub, nPkgInfo)

FirstEligible(folders) ==
    LET idx == {i \in 1..Len(folders) : Eligible(folders[i])}
    IN  IF idx = {} THEN 0 ELSE CHOOSE i \in idx : \A j \in idx : i <= j

RootOf(mp) == Join(Dir(mp), Base(desc[mp].folders[FirstEligible(desc[mp].folders)].Url))

HasRoot(mp) == desc[mp].ok /\ FirstEligible(desc[mp].folders) # 0

\* C2: srcDirURL returns the URL of the first eligible folder in declaration
\* order, or the error when there is none; grepXMLForSrcDirPaths maps exactly
\* the roots of the modules that have an eligible folder, and goes on past a
\* module that has none.
C2_FirstEligibleFolder ==
    /\ \A mp \in DOMAIN desc :
          LET f == desc[mp].folders
              i == FirstEligible(f)
          IN  IF i = 0 THEN srcDirURL(f).err
              ELSE srcDirURL(f) = [url |-> f[i].Url, err |-> FALSE]
    /\ (pc = "collect") =>
          /\ DOMAIN srcDirs = {RootOf(mp) : mp \in {m \in DOMAIN desc : HasRoot(m)}}
          /\ \A mp \in DOMAIN desc : HasRoot(mp) => srcDirs[RootOf(mp)] = mp
    /\ (pc = "panic") => \E mp \in DOMAIN desc : ~desc[mp].ok

\* The first module declares two eligible folders of different URLs, the
\* parser has run, and the root of the first one is mapped.
C2_Witness ==
    /\ pc = "collect"
    /\ Len(desc[fM1].folders) = 2
    /\ Eligible(desc[fM1].folders[1])
    /\ Eligible(desc[fM1].folders[2])
    /\ desc[fM1].folders[1].Url # desc[fM1].folders[2].Url
    /\ Join(dP, Base(desc[fM1].folders[1].Url)) \in DOMAIN srcDirs

\* C3: after the walk and the file counter, every record's directory holds a
\* non-empty source file without underscore prefix, and no underscore-prefixed
\* or zero-byte file is in a files list or counted in filesCnt.
C3_PassedFilesNeverCounted ==
    (pc = "done") =>
        \A d \in DOMAIN pkgs :
            /\ \E i \in 1..Len(Entries(d)) :
                  SrcSuffix(Entries(d)[i]) /\ ~Passed(Join(d, Entries(d)[i]))
            /\ DirDiag(d) \notin stderr =>
                  /\ \A i \in 1..Len(pkgs[d].files) : ~Passed(Join(d, pkgs[d].files[i]))
                  /\ \A e \in {".java", ".kt"} :
                        Cnt(pkgs[d].filesCnt, e)
                          = NumOf(d, LAMBDA nm : nm[Len(nm)] = e /\ ~Passed(Join(d, nm)))

\* C4 as claimed: no file beneath a deny-set directory is in the locator's
\* result, and none gives rise to a Package record or is counted in one (the
\* files of the record of d are those of the form d/name).
C4_DenySetLocatorAndCollector ==
    /\ \A i \in 1..Len(modules) : ~BeneathDeny(modules[i])
    /\ \A d \in DOMAIN pkgs : ~BeneathDeny(Join(d, nTJava))

\* C4 amended: no file beneath a deny-set directory (rootDir or below) is in
\* the locator's result.
C4_DenySetLocator == \A i \in 1..Len(modules) : ~BeneathDeny(modules[i])

\* The locator has finished over the tree, which holds p/test/t.iml.
C4_Witness ==
    /\ pc = "parse"
    /\ modules = <<fM1, fM3>>
    /\ Join(dTest, nTIml) \in Files

\* C5: a traversal error reported during the locator's walk ends the locate
\* operation (with the error returned to main, or at least with the run
\* aborted): the walk does not go on and end with a nil error.
C5_LocateErrorReturned ==
    (\E w \in walkErr : w[1] = "locate") => pc \in {"exit0", "panic"}

\* C6: after an error of fatal origin the run neither reports nor returns
\* normally.
C6_FatalNeverNormalExit ==
    (\/ walkErr # {}
     \/ (pc \notin {"locate", "parse"} /\ \E i \in 1..Len(modules) : ~desc[modules[i]].ok))
        => (pc \notin {"done", "exit0"} /\ stdout = {})

\* C7: when the package line of the file that creates the record of p/src has
\* one token or more than two, the diagnostic is written, the run does not
\* abort and the record has the empty name.
C7_MalformedLineEmptyName ==
    (NameDiag(fAJava) \in stderr) =>
        /\ pc # "panic"
        /\ dSrc \in DOMAIN pkgs
        /\ pkgs[dSrc].name = <<>>

Listing(d) == FilesOf(d, SrcSuffix)

\* C8 (step): the loop iteration for an unreadable directory leaves the record
\* as it was and writes the diagnostic; for a readable one it sets files and
\* filesCnt from the listing; no other record changes and the loop goes on.
C8_Step ==
    (pc = "count" /\ countLeft' # countLeft) =>
        \E d \in countLeft :
            /\ countLeft' = countLeft \ {d}
            /\ pc' = "count"
            /\ \A e \in DOMAIN pkgs \ {d} : pkgs'[e] = pkgs[e]
            /\ IF d \in unreadable
               THEN pkgs'[d] = pkgs[d] /\ DirDiag(d) \in stderr'
               ELSE /\ pkgs'[d].files = Listing(d)
                    /\ \A e \in {".java", ".kt"} :
                          Cnt(pkgs'[d].filesCnt, e) = NumOf(d, LAMBDA nm : nm[Len(nm)] = e)
                    /\ stderr' = stderr

\* C8 (result): at the report every record is either one whose directory
\* could not be read, with no files and no counts, or has its listing.
C8_Result ==
    (pc = "done") =>
        /\ stdout = {Row(pkgs[d]) : d \in DOMAIN pkgs}
        /\ \A d \in DOMAIN pkgs :
              IF DirDiag(d) \in stderr
              THEN pkgs[d].files = <<>> /\ pkgs[d].filesCnt = EmptyMap
              ELSE pkgs[d].files = Listing(d) /\ Listing(d) # <<>>

\* C8: a directory-read failure in the file counter is non-fatal.
C8_ReadFailureNonFatal == []C8_Result /\ [][C8_Step]_vars

\* p/src could not be read by the file counter, p/src/sub was counted, and the
\* report was written.
C8_Witness ==
    /\ pc = "done"
    /\ DirDiag(dSrc) \in stderr
    /\ dSub \in DOMAIN pkgs
    /\ pkgs[dSub].files = <<nBKt, nPkgInfo>>
    /\ stdout # {}

\* C9: two completed runs over the unchanged tree give, for every package
\* directory, the same name, file count and per-extension counts.
C9_RunsAgree ==
    (pc = "done" /\ run >= 2 /\ changed = 0) =>
        /\ DOMAIN prev = DOMAIN pkgs
        /\ \A d \in DOMAIN pkgs :
              /\ prev[d].name = pkgs[d].name
              /\ Len(prev[d].files) = Len(pkgs[d].files)
              /\ \A e \in {".java", ".kt"} : Cnt(prev[d].filesCnt, e) = Cnt(pkgs[d].filesCnt, e)

\* Two runs over nested source roots, which the two runs took in different
\* orders: the record of p/src/sub belongs to different modules.
C9_Witness ==
    /\ pc = "done"
    /\ run = 2
    /\ changed = 0
    /\ {dSrc, dSub} \subseteq DOMAIN srcDirs
    /\ prev[dSub].module # pkgs[dSub].module

\* C10: after the walk a record's doc is empty only if its directory holds no
\* non-empty documentation file without underscore prefix.
C10_DocEmptyOnlyWithoutDocFile ==
    WalkOver =>
        \A d \in DOMAIN pkgs :
            (pkgs[d].doc = <<>>) =>
                ~\E i \in 1..Len(Entries(d)) :
                    DocName(Entries(d)[i]) /\ ~Passed(Join(d, Entries(d)[i]))

====
